---- MODULE Spec2Model ----
(***************************************************************************)
(* Model of the node database (src/mesh/NodeDB.cpp), the reliable delivery *)
(* layer (src/mesh/ReliableRouter.cpp) and the ack/nak construction of     *)
(* src/plugins/RoutingPlugin.cpp.                                          *)
(*                                                                         *)
(* Node numbers and the millisecond clock are unsigned 32-bit in the code; *)
(* the model keeps their modular arithmetic at the scaled widths NodeBits  *)
(* and ClockBits.                                                          *)
(***************************************************************************)
EXTENDS Integers, Sequences, FiniteSets, TLC

VARIABLES
    devicestate,   \* EXT_RAM_ATTR DeviceState devicestate (NodeDB.cpp:31)
    ourMacAddr,    \* static uint8_t ourMacAddr[6] (NodeDB.cpp:59)
    hwMac,         \* the MAC the hardware reports through getMacAddr
    hwVersion,     \* the HW_VERSION build flag ("" when the build has none)
    disk,          \* the content of /db.proto, or NoFile
    tmpdisk,       \* the content of /db.proto.tmp, or NoFile
    halted,        \* "no", "assert" (a failed assert) or "hang" (a loop that never ends)
    op,            \* the NodeDB operation that ran last
    result,        \* what the last NodeDB query was asked and returned
    pending,       \* ReliableRouter::pending: GlobalPacketId -> PendingPacket; a record also
                   \* carries the number of its packet copy and (sent) how many times
                   \* its packet was handed to FloodingRouter::send
    allocated,     \* number of packet copies allocCopy has handed to pending records
    released,      \* per copy: how many times packetPool.release was called on it
    wildRelease,   \* packetPool.release was called on a pointer read from an erased record
    now,           \* millis()
    out,           \* packets emitted by the last handler, in order
    ret,           \* return value of the last handler
    rop            \* the step the router took last: its name, and the packet copies whose
                   \* records it removed from pending

dbvars == <<devicestate, ourMacAddr, hwMac, hwVersion, disk, tmpdisk, halted, op, result>>
rvars == <<pending, allocated, released, wildRelease, now, out, ret, rop>>
vars == <<devicestate, ourMacAddr, hwMac, hwVersion, disk, tmpdisk, halted, op, result,
          pending, allocated, released, wildRelease, now, out, ret, rop>>

----------------------------------------------------------------------------
(* Bounds of the model *)

\* width of a node number in bits (32 in the code)
NodeBits == 3
\* width of the millisecond clock in bits (32 in the code)
ClockBits == 2
\* number of want_ack packets sent through ReliableRouter::send in one run
MaxSends == 2
\* capacity of the node table (MAX_NUM_NODES, platform-defined)
MAX_NUM_NODES == 2
\* width of the clock of seconds getTime() in bits (32 in the code)
TimeBits == 14

(* Program constants.  MAX_NUM_CHANNELS and FLOOD_EXPIRE_TIME are defined in headers *)
(* outside the three files; the device state only stores them.                    *)
NUM_RESERVED == 4
NUM_RETRANSMISSIONS == 3
DEVICESTATE_CUR_VER == 11
DEVICESTATE_MIN_VER == DEVICESTATE_CUR_VER
MAX_NUM_CHANNELS == 8
FLOOD_EXPIRE_TIME == 600000
MIN_APP_VERSION == 20200

NODENUM_BROADCAST == 2^NodeBits - 1
MillisMod == 2^ClockBits
INT32_MAX == 2^(ClockBits - 1) - 1

\* no NodeDB query has run
NoResult == [time |-> 0, count |-> 0]

\* FS.open(preffile) finds no file
NoFile == [exists |-> FALSE]
RegionCode_Unset == "Unset"
RegionCode_TW == "TW"
CriticalErrorCode_None == "None"

----------------------------------------------------------------------------
(* Data model of NodeDB *)

ZeroMac == <<0, 0>>
\* strings built by sprintf are tuples of their parts; << >> is the empty string
ZeroUser == [id |-> << >>, long_name |-> << >>, short_name |-> << >>, macaddr |-> ZeroMac]
ZeroPosition == [latitude_i |-> 0, longitude_i |-> 0, time |-> 0, battery_level |-> 0]
ZeroNodeInfo ==
    [num |-> 0, user |-> ZeroUser, has_user |-> FALSE,
     position |-> ZeroPosition, has_position |-> FALSE, snr |-> 0]

\* memset(&devicestate, 0, sizeof(devicestate))
ZeroDeviceState ==
    [version |-> 0,
     has_my_node |-> FALSE, has_radio |-> FALSE, has_owner |-> FALSE,
     my_node |-> [my_node_num |-> 0, region |-> "", has_gps |-> FALSE,
                  message_timeout_msec |-> 0, max_channels |-> 0,
                  min_app_version |-> 0,
                  error_code |-> CriticalErrorCode_None, error_address |-> 0,
                  error_count |-> 0],
     owner |-> ZeroUser,
     radio |-> [has_preferences |-> FALSE,
                preferences |-> [factory_reset |-> FALSE, region |-> RegionCode_Unset,
                                 dev_timers |-> FALSE]],
     channels_count |-> 0,
     node_db |-> << >>,
     no_save |-> FALSE,
     receive_queue_count |-> 0]

\* the world NodeDB's functions act on: the device state and the static MAC buffer
World(ds, mac) == [ds |-> ds, mac |-> mac]

getNodeNumOf(ds) == ds.my_node.my_node_num

getNodeNum == getNodeNumOf(devicestate)

\* getFrom: a packet from the local phone (from == 0) counts as ours
getFromOf(ds, p) == IF p.from = 0 THEN getNodeNumOf(ds) ELSE p.from

getFrom(p) == getFromOf(devicestate, p)

\* index of the record with num == n in node_db[0..node_db_count), 0 when absent
getNodeIdx(ds, n) ==
    IF \E i \in 1..Len(ds.node_db) : ds.node_db[i].num = n
    THEN CHOOSE i \in 1..Len(ds.node_db) :
            /\ ds.node_db[i].num = n
            /\ \A j \in 1..(i - 1) : ds.node_db[j].num # n
    ELSE 0

\* a variant of getOrCreateAsserts without the assert
getOrCreateUnchecked(ds, n) == FALSE

\* getOrCreateNode fails its assert exactly when n is new and the table is full
getOrCreateAsserts(ds, n) ==
    getNodeIdx(ds, n) = 0 /\ ~(Len(ds.node_db) < MAX_NUM_NODES)

\* the device state after getOrCreateNode(n) returned
getOrCreateNode(ds, n) ==
    IF getNodeIdx(ds, n) # 0 THEN ds
    ELSE [ds EXCEPT !.node_db = Append(@, [ZeroNodeInfo EXCEPT !.num = n])]

----------------------------------------------------------------------------
(* Node-number selection *)

\* (ourMacAddr[2] << 24) | (ourMacAddr[3] << 16) | (ourMacAddr[4] << 8) | ourMacAddr[5]:
\* a MAC is <<bytes 0..1, bytes 2..5>>
MacLow32(mac) == mac[2] % (NODENUM_BROADCAST + 1)

\* the loop condition of pickNewNodeNum: (found = getNode(r)) && memcmp(found->user.macaddr, owner.macaddr)
nodeNumInUse(ds, r) ==
    /\ getNodeIdx(ds, r) # 0
    /\ ds.node_db[getNodeIdx(ds, r)].user.macaddr # ds.owner.macaddr

\* the values random(NUM_RESERVED, NODENUM_BROADCAST) can return
RandomNodeNums == NUM_RESERVED..(NODENUM_BROADCAST - 1)

\* a variant of avoidReserved that keeps the broadcast number
avoidReservedOnly(r) == IF r < NUM_RESERVED THEN NUM_RESERVED ELSE r

\* don't pick a reserved node number
avoidReserved(r) ==
    IF r = NODENUM_BROADCAST \/ r < NUM_RESERVED THEN NUM_RESERVED ELSE r

\* r before the loop of pickNewNodeNum
pickCandidate(w) ==
    avoidReserved(IF getNodeNumOf(w.ds) = 0 THEN MacLow32(w.mac) ELSE getNodeNumOf(w.ds))

\* the loop of pickNewNodeNum never ends: r is in use and so is every value random() can return
pickNewNodeNumHangs(w) ==
    /\ nodeNumInUse(w.ds, pickCandidate(w))
    /\ \A n \in RandomNodeNums : nodeNumInUse(w.ds, n)

\* the random values on which the loop of pickNewNodeNum can end
pickRandoms(w) == {n \in RandomNodeNums : ~nodeNumInUse(w.ds, n)}

\* pickNewNodeNum, rnd being the random value that ends the loop when r is in use
pickNewNodeNum(w, rnd) ==
    [w EXCEPT !.ds.my_node.my_node_num =
        IF nodeNumInUse(w.ds, pickCandidate(w)) THEN rnd ELSE pickCandidate(w)]

----------------------------------------------------------------------------
(* Default state and radio configuration *)

RECURSIVE resetRadioConfig(_)
RECURSIVE installDefaultDeviceState(_)

\* lines 87-115 of resetRadioConfig: default channel, development mode
\* (radioGeneration, channels.onConfigChanged and initRegion act outside the device state)
radioConfigDefaults(w) ==
    LET w1 == IF w.ds.channels_count = 0
              THEN [w EXCEPT !.ds.channels_count = MAX_NUM_CHANNELS,
                             !.ds.radio.has_preferences = TRUE]
              ELSE w
    IN IF w1.ds.no_save
       THEN [w1 EXCEPT !.ds.radio.preferences.dev_timers = TRUE,
                       !.ds.radio.preferences.region = RegionCode_TW]
       ELSE w1

resetRadioConfig(w) ==
    IF w.ds.radio.preferences.factory_reset
    THEN LET w1 == installDefaultDeviceState(w)
         IN IF w1.ds.no_save
            THEN [w1 EXCEPT !.ds.radio.preferences.dev_timers = TRUE,
                            !.ds.radio.preferences.region = RegionCode_TW]
            ELSE w1
    ELSE radioConfigDefaults(w)

\* resetRadioConfig returns didFactoryReset
didFactoryReset(w) == w.ds.radio.preferences.factory_reset

installDefaultDeviceState(w) ==
    LET oldRegion == w.ds.my_node.region
        oldRegionCode == w.ds.radio.preferences.region
        \* memset, the presence flags and the counts
        z == [w EXCEPT !.ds = [ZeroDeviceState EXCEPT
                                  !.has_my_node = TRUE, !.has_radio = TRUE,
                                  !.has_owner = TRUE,
                                  !.radio.has_preferences = TRUE]]
        r == resetRadioConfig(z)
        \* has_gps, message_timeout_msec (FLOOD_EXPIRE_TIME), getMacAddr(ourMacAddr)
        m == [r EXCEPT !.ds.my_node.has_gps = FALSE,
                       !.ds.my_node.message_timeout_msec = FLOOD_EXPIRE_TIME,
                       !.mac = hwMac]
        \* the directory is empty here, so the loop of pickNewNodeNum is not entered
        n == pickNewNodeNum(m, NUM_RESERVED)
        o == [n EXCEPT !.ds.owner =
                 [id |-> <<"!", getNodeNumOf(n.ds)>>,
                  long_name |-> <<"Unknown", n.mac[2] % 65536>>,
                  short_name |-> <<"?", getNodeNumOf(n.ds) % 256>>,
                  macaddr |-> n.mac]]
        c == IF oldRegionCode # RegionCode_Unset
             THEN [o EXCEPT !.ds.radio.preferences.region = oldRegionCode]
             ELSE o
    IN IF oldRegion # ""
       THEN [c EXCEPT !.ds.my_node.region = oldRegion]
       ELSE c

----------------------------------------------------------------------------
(* Boot *)

\* a variant of loadFromDisk without the version test
loadFromDiskAnyVersion(w, f) ==
    IF ~f.exists THEN w
    ELSE IF ~f.decodes
         THEN installDefaultDeviceState([w EXCEPT !.ds = f.content])
         ELSE [w EXCEPT !.ds = f.content]

\* a variant of loadFromDisk that reinstalls the defaults over the state held before the
\* load rather than over what pb_decode left
loadFromDiskOverRam(w, f) ==
    IF ~f.exists THEN w
    ELSE IF ~f.decodes \/ f.content.version < DEVICESTATE_MIN_VER
         THEN installDefaultDeviceState(w)
         ELSE [w EXCEPT !.ds = f.content]

\* loadFromDisk on the file f: [exists], or [exists, decodes, content] where content
\* is what pb_decode left in the zeroed devicestate
loadFromDisk(w, f) ==
    IF ~f.exists THEN w
    ELSE IF ~f.decodes
         THEN installDefaultDeviceState([w EXCEPT !.ds = f.content])
         ELSE IF f.content.version < DEVICESTATE_MIN_VER
              THEN installDefaultDeviceState([w EXCEPT !.ds = f.content])
              ELSE [w EXCEPT !.ds = f.content]

\* the region code the table regions[] gives for an old style string "1.0-<name>",
\* RegionCode_Unset when the string is not of that style or names no region
legacyRegionCode(str) ==
    IF str = "1.0-EU433" THEN "EU433"
    ELSE IF str = "1.0-US" THEN "US"
    ELSE RegionCode_Unset

\* NodeDB::init, lines 165-178: up to the call of pickNewNodeNum
initLoad(w, f) ==
    LET l == loadFromDisk(installDefaultDeviceState(w), f)
    IN [l EXCEPT !.ds.my_node.max_channels = MAX_NUM_CHANNELS,
                 !.ds.my_node.error_code = CriticalErrorCode_None,
                 !.ds.my_node.error_address = 0,
                 !.ds.my_node.min_app_version = MIN_APP_VERSION]

\* NodeDB::init, lines 185-210: after pickNewNodeNum, when getOrCreateNode returns
initFinish(w) ==
    LET n == getNodeNumOf(w.ds)
        d == getOrCreateNode(w.ds, n)
        i == getNodeIdx(d, n)
        u == [w EXCEPT !.ds = [d EXCEPT !.node_db[i].user = d.owner,
                                        !.node_db[i].has_user = TRUE]]
        h == IF hwVersion # ""
             THEN [u EXCEPT !.ds.my_node.region = hwVersion]
             ELSE u
        g == IF /\ h.ds.radio.preferences.region = RegionCode_Unset
                /\ legacyRegionCode(h.ds.my_node.region) # RegionCode_Unset
             THEN [h EXCEPT !.ds.radio.preferences.region =
                                legacyRegionCode(h.ds.my_node.region)]
             ELSE h
    IN resetRadioConfig(g)

----------------------------------------------------------------------------
(* Directory updates *)

\* a variant of updatePosition that takes every field of p
updatePositionWhole(ds, nodeId, p) ==
    LET d == getOrCreateNode(ds, nodeId)
        i == getNodeIdx(d, nodeId)
    IN [d EXCEPT !.node_db[i].position = p, !.node_db[i].has_position = TRUE]

\* updatePosition(nodeId, p), when getOrCreateNode returns
updatePosition(ds, nodeId, p) ==
    LET d == getOrCreateNode(ds, nodeId)
        i == getNodeIdx(d, nodeId)
        old == d.node_db[i].position
        t == IF old.time = 0 /\ p.time # 0 THEN [old EXCEPT !.time = p.time] ELSE old
        b == IF p.battery_level # 0
             THEN [t EXCEPT !.battery_level = p.battery_level] ELSE t
        c == IF p.latitude_i # 0 \/ p.longitude_i # 0
             THEN [b EXCEPT !.latitude_i = p.latitude_i, !.longitude_i = p.longitude_i]
             ELSE b
    IN [d EXCEPT !.node_db[i].position = c, !.node_db[i].has_position = TRUE]

\* updateUser(nodeId, p), when getOrCreateNode returns
updateUser(ds, nodeId, p) ==
    LET d == getOrCreateNode(ds, nodeId)
        i == getNodeIdx(d, nodeId)
    IN [d EXCEPT !.node_db[i].user = p, !.node_db[i].has_user = TRUE]

\* updateFrom(mp) for a packet with a decoded payload, when getOrCreateNode returns
updateFrom(ds, mp) ==
    LET d == getOrCreateNode(ds, getFromOf(ds, mp))
        i == getNodeIdx(d, getFromOf(ds, mp))
        r == IF mp.rx_time # 0
             THEN [d EXCEPT !.node_db[i].has_position = TRUE,
                            !.node_db[i].position.time = mp.rx_time]
             ELSE d
    IN [r EXCEPT !.node_db[i].snr = mp.rx_snr]

----------------------------------------------------------------------------
(* NodeDB operations as actions *)

theWorld == World(devicestate, ourMacAddr)

\* what a DB operation leaves alone
DbFrame == UNCHANGED <<hwMac, hwVersion, disk, tmpdisk, ourMacAddr, result>> /\ UNCHANGED rvars

\* NodeDB::init or installDefaultDeviceState has run
Booted == op # "off"

\* NodeDB::init on a freshly powered device: static storage is zero
Boot ==
    LET w0 == World(ZeroDeviceState, ZeroMac)
        w1 == initLoad(w0, disk)
    IN /\ op' = "init"
       /\ UNCHANGED <<hwMac, hwVersion, disk, tmpdisk, result>>
       /\ UNCHANGED rvars
       /\ IF pickNewNodeNumHangs(w1)
          THEN /\ halted' = "hang"
               /\ devicestate' = w1.ds
               /\ ourMacAddr' = w1.mac
          ELSE \E rnd \in pickRandoms(w1) :
                 LET w2 == pickNewNodeNum(w1, rnd)
                 IN IF getOrCreateAsserts(w2.ds, getNodeNumOf(w2.ds))
                    THEN /\ halted' = "assert"
                         /\ devicestate' = w2.ds
                         /\ ourMacAddr' = w2.mac
                    ELSE /\ halted' = "no"
                         /\ devicestate' = initFinish(w2).ds
                         /\ ourMacAddr' = initFinish(w2).mac

PickNewNodeNumOp ==
    /\ Booted /\ halted = "no"
    /\ op' = "pickNewNodeNum"
    /\ DbFrame
    /\ IF pickNewNodeNumHangs(theWorld)
       THEN halted' = "hang" /\ UNCHANGED devicestate
       ELSE /\ UNCHANGED halted
            /\ \E rnd \in pickRandoms(theWorld) :
                 devicestate' = pickNewNodeNum(theWorld, rnd).ds

GetOrCreateNodeOp(n) ==
    /\ Booted /\ halted = "no"
    /\ op' = "getOrCreateNode"
    /\ DbFrame
    /\ IF getOrCreateAsserts(devicestate, n)
       THEN halted' = "assert" /\ UNCHANGED devicestate
       ELSE UNCHANGED halted /\ devicestate' = getOrCreateNode(devicestate, n)

UpdatePositionOp(n, p) ==
    /\ Booted /\ halted = "no"
    /\ op' = "updatePosition"
    /\ DbFrame
    /\ IF getOrCreateAsserts(devicestate, n)
       THEN halted' = "assert" /\ UNCHANGED devicestate
       ELSE UNCHANGED halted /\ devicestate' = updatePosition(devicestate, n, p)

UpdateUserOp(n, u) ==
    /\ Booted /\ halted = "no"
    /\ op' = "updateUser"
    /\ DbFrame
    /\ IF getOrCreateAsserts(devicestate, n)
       THEN halted' = "assert" /\ UNCHANGED devicestate
       ELSE UNCHANGED halted /\ devicestate' = updateUser(devicestate, n, u)

UpdateFromOp(mp) ==
    /\ Booted /\ halted = "no"
    /\ op' = "updateFrom"
    /\ DbFrame
    /\ IF ~mp.decoded
       THEN UNCHANGED <<halted, devicestate>>
       ELSE IF getOrCreateAsserts(devicestate, getFrom(mp))
            THEN halted' = "assert" /\ UNCHANGED devicestate
            ELSE UNCHANGED halted /\ devicestate' = updateFrom(devicestate, mp)

\* resetRadioConfig, called after the caller stored the received preferences
\* (their factory_reset flag fr) in radioConfig
ResetRadioConfigOp(fr) ==
    /\ Booted /\ halted = "no"
    /\ op' = "resetRadioConfig"
    /\ UNCHANGED <<hwMac, hwVersion, disk, tmpdisk, halted, result>>
    /\ UNCHANGED rvars
    /\ LET w == resetRadioConfig(
                  [theWorld EXCEPT !.ds.radio.preferences.factory_reset = fr])
       IN devicestate' = w.ds /\ ourMacAddr' = w.mac

----------------------------------------------------------------------------
(* Reliable delivery: helpers *)

Routing_Error_NONE == "NONE"
Routing_Error_MAX_RETRANSMIT == "MAX_RETRANSMIT"
ERRNO_OK == "ERRNO_OK"
\* sniffReceived was handed no Routing record (c == NULL)
NoRouting == "absent"

\* what a handler returns: nothing, an ErrorCode, a bool or an int32_t
NoReturn == [type |-> "void", err |-> ERRNO_OK, flag |-> FALSE, msec |-> 0]
ReturnErrorCode(rc) == [NoReturn EXCEPT !.type = "ErrorCode", !.err = rc]
ReturnBool(b) == [NoReturn EXCEPT !.type = "bool", !.flag = b]
ReturnInt32(d) == [NoReturn EXCEPT !.type = "int32_t", !.msec = d]

\* GlobalPacketId(from, id)
GlobalPacketId2(from, id) == <<from, id>>

\* GlobalPacketId(p), the key startRetransmission stores a record under
GlobalPacketId(p) == <<p.from, p.id>>

\* the router's state as its handlers transform it
RouterState ==
    [pending |-> pending, released |-> released, wildRelease |-> wildRelease,
     out |-> << >>, d |-> INT32_MAX, ret |-> NoReturn]

\* the packet RoutingPlugin::sendAckNak(err, to, idFrom) hands to router->sendLocal
AckNakPacket(err, to, idFrom) ==
    [kind |-> "acknak", err |-> err, from |-> getNodeNum, to |-> to, id |-> 0,
     request_id |-> idFrom, hop_limit |-> 0, want_ack |-> FALSE]

sendAckNak(r, err, to, idFrom) ==
    [r EXCEPT !.out = Append(@, AckNakPacket(err, to, idFrom))]

\* the packet handed to FloodingRouter::send
FloodPacket(p) ==
    [kind |-> "flood", err |-> Routing_Error_NONE, from |-> p.from, to |-> p.to,
     id |-> p.id, request_id |-> 0, hop_limit |-> p.hop_limit, want_ack |-> p.want_ack]

floodingSend(r, p) == [r EXCEPT !.out = Append(@, FloodPacket(p))]

\* findPendingPacket(key) != NULL
findPendingPacket(r, key) == key \in DOMAIN r.pending

\* a variant of erase that leaves the record in the table
eraseNothing(pend, key) == pend

\* pending.erase(key)
erase(pend, key) == [k \in (DOMAIN pend) \ {key} |-> pend[k]]

\* a variant of stopRetransmission that leaves the record pending
stopRetransmissionKeeps(r, key, stale) == r

\* stopRetransmission(key).  The record is erased before old->packet is read, so the
\* pointer released is read from freed memory: it is the record's packet, or
\* (stale) some other value, in which case the copy is not released.
stopRetransmission(r, key, stale) ==
    IF findPendingPacket(r, key)
    THEN LET old == r.pending[key]
             e == [r EXCEPT !.pending = erase(r.pending, key)]
         IN IF stale
            THEN [e EXCEPT !.wildRelease = TRUE]
            ELSE [e EXCEPT !.released[old.copy] = @ + 1]
    ELSE r

\* iface->getRetransmissionMsec(p) is d: nextTxMsec = millis() + d in uint32_t
setNextTx(d) == (now + d) % MillisMod

\* a variant of PendingPacket that does not count the first send
PendingPacketUncounted(p, copy) ==
    [packet |-> p, copy |-> copy, sent |-> 0, nextTxMsec |-> 0,
     numRetransmissions |-> NUM_RETRANSMISSIONS]

\* a variant of PendingPacket that allows one retransmission only
PendingPacketOneRetry(p, copy) ==
    [packet |-> p, copy |-> copy, sent |-> 0, nextTxMsec |-> 0,
     numRetransmissions |-> NUM_RETRANSMISSIONS - 2]

\* PendingPacket::PendingPacket(p): the user just did the first send
PendingPacket(p, copy) ==
    [packet |-> p, copy |-> copy, sent |-> 0, nextTxMsec |-> 0,
     numRetransmissions |-> NUM_RETRANSMISSIONS - 1]

\* startRetransmission(p) for the copy numbered copy
startRetransmission(r, p, copy, d, stale) ==
    LET id == GlobalPacketId(p)
        rec == [PendingPacket(p, copy) EXCEPT !.nextTxMsec = setNextTx(d)]
        s == stopRetransmission(r, GlobalPacketId2(getFrom(p), p.id), stale)
    IN [s EXCEPT !.pending =
           [k \in (DOMAIN s.pending) \cup {id} |->
               IF k = id THEN rec ELSE s.pending[k]]]

\* (int32_t) of a uint32_t difference
ToInt32(x) ==
    LET m == x % MillisMod
    IN IF m >= MillisMod \div 2 THEN m - MillisMod ELSE m

Min(a, b) == IF a <= b THEN a ELSE b

\* a variant of decrementRetransmissions that leaves the count as it is
keepRetransmissions(n) == n

\* --p.numRetransmissions
decrementRetransmissions(n) == n - 1

\* one turn of the loop of doRetransmissions, for the record under key;
\* r.d is the delay accumulated so far
retransmitOne(r, key, d, stale) ==
    LET p == r.pending[key]
    IN IF p.nextTxMsec <= now
       THEN IF p.numRetransmissions = 0
            THEN stopRetransmission(
                    sendAckNak(r, Routing_Error_MAX_RETRANSMIT,
                               getFrom(p.packet), p.packet.id),
                    key, stale)
            ELSE [floodingSend(r, p.packet) EXCEPT
                    !.pending[key].sent = @ + 1,
                    !.pending[key].numRetransmissions = decrementRetransmissions(@),
                    !.pending[key].nextTxMsec = setNextTx(d),
                    !.d = Min(ToInt32(setNextTx(d) - now), r.d)]
       ELSE [r EXCEPT !.d = Min(ToInt32(p.nextTxMsec - now), r.d)]

RECURSIVE doRetransmissions(_, _, _, _)
\* doRetransmissions walking the records in the order the map yields them;
\* ds[key] is the retransmission interval for key, stale the keys whose release reads a stale pointer
doRetransmissions(r, order, ds, stale) ==
    IF order = << >> THEN [r EXCEPT !.ret = ReturnInt32(r.d)]
    ELSE doRetransmissions(
            retransmitOne(r, Head(order), ds[Head(order)], Head(order) \in stale),
            Tail(order), ds, stale)

\* the orders in which a map can yield the keys in S
Orders(S) ==
    {f \in [1..Cardinality(S) -> S] : \A i, j \in 1..Cardinality(S) : f[i] = f[j] => i = j}

----------------------------------------------------------------------------
(* Reliable delivery: handlers *)

\* a variant of sendHopLimit that leaves the hop limit as it came
sendHopLimitKept(p) == p

\* send: the hop limit a want_ack broadcast leaves with
sendHopLimit(p) ==
    IF p.want_ack /\ p.to = NODENUM_BROADCAST /\ p.hop_limit = 0
    THEN [p EXCEPT !.hop_limit = 1]
    ELSE p

\* ReliableRouter::send(p), the copy being the one numbered copy; d is the retransmission
\* interval, rc what FloodingRouter::send returns
send(r, p, copy, d, stale, rc) ==
    LET q == sendHopLimit(p)
        s == IF q.want_ack
             THEN startRetransmission(r, q, copy, d, stale)
             ELSE r
        f == floodingSend(s, q)
    IN [(IF q.want_ack
         THEN [f EXCEPT !.pending[GlobalPacketId(q)].sent = @ + 1]
         ELSE f) EXCEPT !.ret = ReturnErrorCode(rc)]

\* a variant of implicitAck that acks every overheard rebroadcast
implicitAckAlways(r, key) == TRUE

\* shouldFilterReceived generates the implicit ack when stopRetransmission found a record
implicitAck(r, key) == findPendingPacket(r, key)

\* ReliableRouter::shouldFilterReceived(p); filt is what FloodingRouter::shouldFilterReceived returns
shouldFilterReceived(r, p, filt, stale) ==
    LET key == GlobalPacketId2(getFrom(p), p.id)
        s == IF p.to = NODENUM_BROADCAST /\ p.from = getNodeNum
             THEN IF implicitAck(r, key)
                  THEN sendAckNak(stopRetransmission(r, key, stale),
                                  Routing_Error_NONE, getFrom(p), p.id)
                  ELSE stopRetransmission(r, key, stale)
             ELSE r
    IN [s EXCEPT !.ret = ReturnBool(filt)]

\* an ack is a packet without routing record, or with one without error, and its request_id
ackIdOf(p, c) == IF c = Routing_Error_NONE \/ c = NoRouting THEN p.request_id ELSE 0

\* a variant of nakIdOf that does not recognise naks
nakIdIgnored(p, c) == 0

\* a nak is a routing packet that has an error code
nakIdOf(p, c) == IF c # NoRouting /\ c # Routing_Error_NONE THEN p.request_id ELSE 0

\* a variant of sniffAcks that does not look at currentReply
sniffAcksTwice(p, currentReply) == p.want_ack

\* sniffReceived acks a want_ack packet unless another plugin has replied
sniffAcks(p, currentReply) == p.want_ack /\ ~currentReply

\* ReliableRouter::sniffReceived(p, c); currentReply is MeshPlugin::currentReply != NULL
sniffReceived(r, p, c, currentReply, stale) ==
    LET ourNode == getNodeNum
        a == IF sniffAcks(p, currentReply)
             THEN sendAckNak(r, Routing_Error_NONE, getFrom(p), p.id)
             ELSE r
        ackId == ackIdOf(p, c)
        nakId == nakIdOf(p, c)
    IN IF p.to = ourNode
       THEN IF ackId # 0 \/ nakId # 0
            THEN IF ackId # 0
                 THEN stopRetransmission(a, GlobalPacketId2(p.to, ackId), stale)
                 ELSE stopRetransmission(a, GlobalPacketId2(p.to, nakId), stale)
            ELSE a
       ELSE r

----------------------------------------------------------------------------
(* Reliable delivery: handlers as actions *)

\* the packet copies the records of pend own
Copies(pend) == {pend[k].copy : k \in DOMAIN pend}

\* the handler called name leaves the router in state r
RouterBecomes(name, r) ==
    /\ pending' = r.pending
    /\ released' = r.released
    /\ wildRelease' = r.wildRelease
    /\ out' = r.out
    /\ ret' = r.ret
    /\ rop' = <<name, Copies(pending) \ Copies(r.pending)>>
    /\ UNCHANGED now
    /\ UNCHANGED dbvars

Send(p, d, stale, rc) ==
    /\ p.want_ack => allocated < MaxSends
    /\ RouterBecomes("send", send(RouterState, p, allocated + 1, d, stale, rc))
    /\ allocated' = IF p.want_ack THEN allocated + 1 ELSE allocated

ShouldFilterReceived(p, filt, stale) ==
    /\ RouterBecomes("shouldFilterReceived",
                     shouldFilterReceived(RouterState, p, filt, stale))
    /\ UNCHANGED allocated

SniffReceived(p, c, currentReply, stale) ==
    /\ RouterBecomes("sniffReceived",
                     sniffReceived(RouterState, p, c, currentReply, stale))
    /\ UNCHANGED allocated

DoRetransmissions(order, ds, stale) ==
    /\ RouterBecomes("doRetransmissions",
                     doRetransmissions(RouterState, order, ds, stale))
    /\ UNCHANGED allocated

\* a millisecond passes
Tick ==
    /\ now' = (now + 1) % MillisMod
    /\ allocated' = allocated
    /\ out' = << >>
    /\ ret' = NoReturn
    /\ rop' = <<"tick", {}>>
    /\ UNCHANGED <<pending, released, wildRelease>>
    /\ UNCHANGED dbvars

----------------------------------------------------------------------------
(* Inputs *)

\* a peer's node number
Peer == NUM_RESERVED + 1

PacketIds == {1, 2}

\* intervals iface->getRetransmissionMsec returns
RetransmissionMsecs == {1}

\* packets handed to ReliableRouter::send with want_ack: ours, or the phone's (from == 0),
\* to a peer or to everybody
WantAckPackets ==
    {[from |-> getNodeNum, to |-> NODENUM_BROADCAST, id |-> 1, want_ack |-> TRUE, hop_limit |-> 0],
     [from |-> getNodeNum, to |-> Peer, id |-> 2, want_ack |-> TRUE, hop_limit |-> 0],
     [from |-> 0, to |-> Peer, id |-> 1, want_ack |-> TRUE, hop_limit |-> 3],
     [from |-> 0, to |-> NODENUM_BROADCAST, id |-> 2, want_ack |-> TRUE, hop_limit |-> 3]}

\* packets handed to ReliableRouter::send without want_ack
PlainPackets ==
    {[from |-> getNodeNum, to |-> NODENUM_BROADCAST, id |-> 1, want_ack |-> FALSE, hop_limit |-> 0],
     [from |-> 0, to |-> Peer, id |-> 2, want_ack |-> FALSE, hop_limit |-> 3]}

SendPackets == WantAckPackets \cup PlainPackets

\* packets the radio hands to shouldFilterReceived
FilterPackets ==
    [from : {getNodeNum, Peer}, to : {getNodeNum, NODENUM_BROADCAST}, id : PacketIds]

\* packets handed to sniffReceived: addressed to us from the phone or a peer, or to a peer
SniffPackets ==
    {p \in [from : {0, Peer}, to : {getNodeNum, Peer}, id : PacketIds,
            want_ack : BOOLEAN, request_id : {0} \cup PacketIds] :
        /\ p.id = (IF p.from = 0 THEN 1 ELSE 2)
        /\ p.to # getNodeNum => p.from = Peer /\ p.request_id = 1}

Routings == {NoRouting, Routing_Error_NONE, Routing_Error_MAX_RETRANSMIT}

\* ErrorCode values FloodingRouter::send returns
ErrorCodes == {ERRNO_OK}

----------------------------------------------------------------------------
(* Specification of the reliable delivery layer *)

\* the device state of a node booted without a saved file
BootedDeviceState ==
    LET w == initLoad(World(ZeroDeviceState, ZeroMac), NoFile)
    IN initFinish(pickNewNodeNum(w, NUM_RESERVED)).ds

RouterInit ==
    /\ pending = << >>
    /\ allocated = 0
    /\ released = [c \in 1..MaxSends |-> 0]
    /\ wildRelease = FALSE
    /\ now = 0
    /\ out = << >>
    /\ ret = NoReturn
    /\ rop = <<"boot", {}>>

Init ==
    /\ hwMac = <<0, NUM_RESERVED>>
    /\ hwVersion = ""
    /\ disk = NoFile
    /\ tmpdisk = NoFile
    /\ ourMacAddr = hwMac
    /\ devicestate = BootedDeviceState
    /\ halted = "no"
    /\ op = "init"
    /\ result = NoResult
    /\ RouterInit

\* the outcomes of the stale read in stopRetransmission(key): none when no record is erased
StaleReads(key) == IF key \in DOMAIN pending THEN BOOLEAN ELSE {FALSE}

SendStepOf(packets) ==
    \E p \in packets, rc \in ErrorCodes :
        \E d \in IF p.want_ack THEN RetransmissionMsecs ELSE {0} :
            \E stale \in IF p.want_ack
                         THEN StaleReads(GlobalPacketId2(getFrom(p), p.id))
                         ELSE {FALSE} :
                Send(p, d, stale, rc)

SendStep == SendStepOf(SendPackets)

FilterStepOf(packets, filts) ==
    \E p \in packets, filt \in filts :
        \E stale \in StaleReads(GlobalPacketId2(getFrom(p), p.id)) :
            ShouldFilterReceived(p, filt, stale)

FilterStep == FilterStepOf(FilterPackets, BOOLEAN)

SniffStepOf(packets, routings) ==
    \E p \in packets, c \in routings :
      \E currentReply \in IF p.want_ack THEN BOOLEAN ELSE {FALSE} :
        \E stale \in StaleReads(GlobalPacketId2(p.to, p.request_id)) :
            SniffReceived(p, c, currentReply, stale)

SniffStep == SniffStepOf(SniffPackets, Routings)

RetransmitStep ==
    \E order \in Orders(DOMAIN pending), ds \in [DOMAIN pending -> RetransmissionMsecs],
       stale \in SUBSET (DOMAIN pending) :
        DoRetransmissions(order, ds, stale)

Next == SendStep \/ FilterStep \/ SniffStep \/ RetransmitStep \/ Tick

Spec == Init /\ [][Next]_vars

----------------------------------------------------------------------------
(* Claims about the reliable delivery layer *)

\* how many times x occurs in the sequence seq
Count(seq, x) == Cardinality({i \in 1..Len(seq) : seq[i] = x})

\* the keys of the records doRetransmissions finds due
DueKeys == {key \in DOMAIN pending : pending[key].nextTxMsec <= now}

\* what doRetransmissions is to emit for a due record: a nak to the originator once the
\* packet was sent NUM_RETRANSMISSIONS times, a retransmission before
DueEmission(e) ==
    IF e.sent = NUM_RETRANSMISSIONS
    THEN AckNakPacket(Routing_Error_MAX_RETRANSMIT,
                      IF e.packet.from = 0 THEN getNodeNum ELSE e.packet.from,
                      e.packet.id)
    ELSE FloodPacket(e.packet)

\* C1 (as amended): a pending packet has been handed to the flooding send
\* NUM_RETRANSMISSIONS minus its remaining retries times (once by send, then once per due
\* doRetransmissions); a due doRetransmissions retransmits it while it was sent fewer than
\* three times, and at three emits exactly one MAX_RETRANSMIT nak with request_id = p.id,
\* addressed to p.from or, when p.from is 0, to our own node number, and removes the record;
\* doRetransmissions emits nothing else, so a removed packet is not transmitted again.
C1_RetryExhaustion ==
    /\ [](\A key \in DOMAIN pending :
            /\ pending[key].sent >= 1
            /\ pending[key].sent + pending[key].numRetransmissions = NUM_RETRANSMISSIONS)
    /\ [][rop'[1] = "doRetransmissions" =>
            /\ \A key \in DOMAIN pending :
                 IF key \in DueKeys
                 THEN IF pending[key].sent = NUM_RETRANSMISSIONS
                      THEN key \notin DOMAIN pending'
                      ELSE /\ key \in DOMAIN pending'
                           /\ pending'[key].packet = pending[key].packet
                           /\ pending'[key].sent = pending[key].sent + 1
                 ELSE key \in DOMAIN pending' /\ pending'[key] = pending[key]
            /\ DOMAIN pending' \subseteq DOMAIN pending
            /\ Len(out') = Cardinality(DueKeys)
            /\ \A key \in DueKeys :
                 Count(out', DueEmission(pending[key])) =
                    Cardinality({k \in DueKeys :
                                    DueEmission(pending[k]) = DueEmission(pending[key])})
      ]_vars

\* C1 witness: doRetransmissions has just removed a record and emitted its MAX_RETRANSMIT nak
C1_Witness ==
    /\ rop[1] = "doRetransmissions"
    /\ rop[2] # {}
    /\ \E i \in 1..Len(out) :
         /\ out[i].kind = "acknak"
         /\ out[i].err = Routing_Error_MAX_RETRANSMIT
         /\ out[i].to = getNodeNum

\* C1 as stated: the nak of an exhausted packet p is addressed to p.from
C1_NakToPacketFrom ==
    [][rop'[1] = "doRetransmissions" =>
          \A key \in DueKeys :
              pending[key].sent = NUM_RETRANSMISSIONS =>
                 \E i \in 1..Len(out') :
                    out'[i] = AckNakPacket(Routing_Error_MAX_RETRANSMIT,
                                           pending[key].packet.from,
                                           pending[key].packet.id)
      ]_vars

\* C2: in every reachable state, shouldFilterReceived on our own broadcast coming back
\* removes the record pending under (from, id) and emits exactly one ack (NONE, to
\* ourselves, request_id = id); without such a record, or for any other packet, pending is
\* unchanged and nothing is emitted; the flooding filter's result is returned in every case.
C2_ImplicitAck ==
    \A p \in FilterPackets, filt \in BOOLEAN, stale \in BOOLEAN :
        LET n == shouldFilterReceived(RouterState, p, filt, stale)
        IN /\ n.ret = ReturnBool(filt)
           /\ IF /\ p.to = NODENUM_BROADCAST
                 /\ p.from = getNodeNum
                 /\ <<p.from, p.id>> \in DOMAIN pending
              THEN /\ DOMAIN n.pending = (DOMAIN pending) \ {<<p.from, p.id>>}
                   /\ \A k \in DOMAIN n.pending : n.pending[k] = pending[k]
                   /\ n.out = <<AckNakPacket(Routing_Error_NONE, getNodeNum, p.id)>>
              ELSE n.pending = pending /\ n.out = << >>

\* C2 witness: shouldFilterReceived has just removed a record and emitted the implicit ack
C2_Witness ==
    /\ rop[1] = "shouldFilterReceived"
    /\ rop[2] # {}
    /\ Len(out) = 1
    /\ out[1].err = Routing_Error_NONE
    /\ out[1].to = getNodeNum

\* C3: in every reachable state, sniffReceived of a packet addressed to us with
\* request_id r # 0 removes the record pending under (our node number, r) if there is one,
\* for an ack and for a nak and whoever sent it, and changes no other record; it emits
\* nothing when the packet does not want an ack; and doRetransmissions retransmits only
\* packets of records that are pending.
C3_ExplicitAckNak ==
    /\ [](\A p \in SniffPackets, c \in Routings, currentReply \in BOOLEAN, stale \in BOOLEAN :
            LET n == sniffReceived(RouterState, p, c, currentReply, stale)
            IN /\ (p.to = getNodeNum /\ p.request_id # 0) =>
                     /\ DOMAIN n.pending = (DOMAIN pending) \ {<<getNodeNum, p.request_id>>}
                     /\ \A k \in DOMAIN n.pending : n.pending[k] = pending[k]
               /\ ~p.want_ack => n.out = << >>)
    /\ [][rop'[1] = "doRetransmissions" =>
            \A i \in 1..Len(out') :
                out'[i].kind = "flood" =>
                   \E key \in DOMAIN pending : out'[i] = FloodPacket(pending[key].packet)
        ]_vars

\* C3 witness: sniffReceived has just removed a record without emitting an ack
C3_Witness ==
    /\ rop[1] = "sniffReceived"
    /\ rop[2] # {}
    /\ out = << >>

\* C4: in every reachable state, sniffReceived emits exactly one ack (NONE, to the sender,
\* request_id = p.id) when the packet is addressed to us, wants an ack and no other plugin
\* has replied, and nothing otherwise; a packet not addressed to us leaves pending unchanged.
C4_ReceiverAck ==
    \A p \in SniffPackets, c \in Routings, currentReply \in BOOLEAN, stale \in BOOLEAN :
        LET n == sniffReceived(RouterState, p, c, currentReply, stale)
        IN /\ IF p.to = getNodeNum /\ p.want_ack /\ ~currentReply
              THEN n.out = <<AckNakPacket(Routing_Error_NONE,
                                          IF p.from = 0 THEN getNodeNum ELSE p.from,
                                          p.id)>>
              ELSE n.out = << >>
           /\ p.to # getNodeNum => n.pending = pending

\* C4 witness: sniffReceived has just acked a want_ack packet of a peer
C4_Witness ==
    /\ rop[1] = "sniffReceived"
    /\ out = <<AckNakPacket(Routing_Error_NONE, Peer, 2)>>

\* the packets received while liveness is examined: our own broadcasts coming back, and
\* acks and naks of a peer for either packet id
LiveFilterPackets == {p \in FilterPackets : p.from = getNodeNum /\ p.to = NODENUM_BROADCAST}

LiveSniffPackets ==
    {p \in SniffPackets :
        p.from = Peer /\ p.to = getNodeNum /\ ~p.want_ack /\ p.request_id # 0}

LiveRoutings == {NoRouting, Routing_Error_MAX_RETRANSMIT}

LiveSendStep == SendStepOf(WantAckPackets)

LiveFilterStep == FilterStepOf(LiveFilterPackets, {FALSE})

LiveSniffStep == SniffStepOf(LiveSniffPackets, LiveRoutings)

LiveNext == LiveSendStep \/ LiveFilterStep \/ LiveSniffStep \/ RetransmitStep \/ Tick

\* doRetransmissions runs while some pending record is due
DueRetransmit ==
    /\ DueKeys # {}
    /\ RetransmitStep

\* the router with a clock that keeps advancing and a loop that keeps calling
\* doRetransmissions: if records are due again and again, doRetransmissions runs on due
\* records again and again. This is SF_vars(DueRetransmit) with its enabling condition
\* written out: DueRetransmit can change the state exactly when DueKeys # {}. A due record
\* stays due in the program until the loop has run; strong fairness stands for that in a
\* clock that wraps within a few ticks.
LiveSpec ==
    /\ Init
    /\ [][LiveNext]_vars
    /\ WF_vars(Tick)
    /\ ([]<>(DueKeys # {})) => []<><<DueRetransmit>>_vars

\* C5: every packet copy placed in the pending table eventually leaves it, and a record
\* holds at most NUM_RETRANSMISSIONS - 1 remaining retries, which every due
\* doRetransmissions either decreases or ends by removing the record.
C5_EventualRemoval ==
    /\ \A c \in 1..MaxSends : (c \in Copies(pending)) ~> (c \notin Copies(pending))
    /\ [](\A key \in DOMAIN pending :
            pending[key].numRetransmissions \in 0..(NUM_RETRANSMISSIONS - 1))
    /\ [][rop'[1] = "doRetransmissions" =>
            \A key \in DueKeys :
                \/ key \notin DOMAIN pending'
                \/ pending'[key].numRetransmissions < pending[key].numRetransmissions
        ]_vars

\* C5 witness: every packet sent for acknowledgement has left the pending table again
C5_Witness ==
    /\ allocated = MaxSends
    /\ DOMAIN pending = {}
    /\ rop[2] # {}

\* C6: every pending record owns a packet copy no other record owns, a copy is unreleased
\* while its record is pending and released exactly once when the record is gone, and
\* release is never called on anything but such a copy.
C6_PoolBalance ==
    /\ ~wildRelease
    /\ \A k1, k2 \in DOMAIN pending : pending[k1].copy = pending[k2].copy => k1 = k2
    /\ \A c \in 1..allocated :
         released[c] = (IF c \in Copies(pending) THEN 0 ELSE 1)

----------------------------------------------------------------------------
(* Specification of the node directory *)

\* node numbers packets and callers name: ours and two peers
DirNodeIds == {NUM_RESERVED, Peer, Peer + 1}

\* the record of the merge example, a report without time and position, and a later fix
PositionA == [latitude_i |-> 50, longitude_i |-> 60, time |-> 1000, battery_level |-> 80]
PositionB == [latitude_i |-> 0, longitude_i |-> 0, time |-> 0, battery_level |-> 75]
PositionC == [latitude_i |-> 0, longitude_i |-> 61, time |-> 2000, battery_level |-> 0]

Positions == {PositionA, PositionB, PositionC}

\* the user record a node with MAC mac and number n announces
UserOf(mac, n) ==
    [id |-> <<"!", n>>, long_name |-> <<"Unknown", mac[2] % 65536>>,
     short_name |-> <<"?", n % 256>>, macaddr |-> mac]

PeerMac == <<1, Peer>>

Users == {UserOf(PeerMac, Peer)}

\* received packets handed to updateFrom
FromPackets ==
    [from : {0, Peer}, rx_time : {0, 2000}, rx_snr : {0, 7}, decoded : BOOLEAN]

\* the device state installDefaultDeviceState leaves on a device whose MAC is hwMac
DefaultDeviceState == installDefaultDeviceState(World(ZeroDeviceState, ZeroMac)).ds

InitDir ==
    /\ hwMac = <<0, NUM_RESERVED>>
    /\ hwVersion = ""
    /\ disk = NoFile
    /\ tmpdisk = NoFile
    /\ ourMacAddr = hwMac
    /\ devicestate = DefaultDeviceState
    /\ halted = "no"
    /\ op = "installDefaultDeviceState"
    /\ result = NoResult
    /\ RouterInit

GetOrCreateNodeStep(ids) == \E n \in ids : GetOrCreateNodeOp(n)

UpdatePositionStep(ids, positions) ==
    \E n \in ids, p \in positions : UpdatePositionOp(n, p)

UpdateUserStep(ids, users) == \E n \in ids, u \in users : UpdateUserOp(n, u)

UpdateFromStep(packets) == \E mp \in packets : UpdateFromOp(mp)

DirGetOrCreateNode == GetOrCreateNodeStep(DirNodeIds)

DirUpdatePosition == UpdatePositionStep(DirNodeIds, Positions)

DirUpdateUser == UpdateUserStep(DirNodeIds, Users)

DirUpdateFrom == UpdateFromStep(FromPackets)

NextDir == DirGetOrCreateNode \/ DirUpdatePosition \/ DirUpdateUser \/ DirUpdateFrom

SpecDir == InitDir /\ [][NextDir]_vars

----------------------------------------------------------------------------
(* Specification of boot and node-number selection *)

\* MAC addresses of the device: their low bytes give a free number, a reserved number,
\* and the broadcast number
HwMacs == {<<0, Peer>>, <<0, 0>>, <<1, NODENUM_BROADCAST>>}

\* a directory record saved for node n with MAC mac
SavedNode(n, mac) ==
    [ZeroNodeInfo EXCEPT !.num = n, !.user = UserOf(mac, n), !.has_user = TRUE]

\* directories saveToDisk wrote: empty, a peer's record under Peer, our own record under
\* Peer, and a full table that holds Peer
SavedDirectories(mac) ==
    {<< >>,
     <<SavedNode(Peer, PeerMac)>>,
     <<SavedNode(Peer, mac)>>,
     <<SavedNode(NUM_RESERVED, PeerMac), SavedNode(Peer, PeerMac)>>}

\* node numbers found in a saved file: none, a reserved one, one in range, the broadcast one
SavedNodeNums == {0, NUM_RESERVED - 2, Peer, NODENUM_BROADCAST}

\* what pb_decode leaves in the zeroed devicestate for a saved file
SavedState(mac, ver, num, dir, fr) ==
    [ZeroDeviceState EXCEPT
        !.version = ver,
        !.has_my_node = TRUE, !.has_radio = TRUE, !.has_owner = TRUE,
        !.my_node.my_node_num = num,
        !.my_node.message_timeout_msec = FLOOD_EXPIRE_TIME,
        !.owner = UserOf(mac, num),
        !.radio.has_preferences = TRUE,
        !.radio.preferences.factory_reset = fr,
        !.radio.preferences.region = "US",
        !.channels_count = MAX_NUM_CHANNELS,
        !.node_db = dir]

\* /db.proto at power on: absent, cut short, written by an older version, or current
DiskFiles(mac) ==
    {NoFile,
     [exists |-> TRUE, decodes |-> FALSE,
      content |-> [ZeroDeviceState EXCEPT !.version = DEVICESTATE_CUR_VER,
                                          !.my_node.my_node_num = Peer,
                                          !.radio.preferences.region = "US",
                                          !.node_db = <<SavedNode(Peer, PeerMac)>>]]}
    \cup
    {[exists |-> TRUE, decodes |-> TRUE,
      content |-> [SavedState(mac, DEVICESTATE_MIN_VER - 1, Peer,
                              <<SavedNode(Peer, PeerMac)>>, FALSE)
                      EXCEPT !.radio.preferences.region = code,
                             !.my_node.region = str]] :
        code \in {RegionCode_Unset, "US"},
        str \in {"", "1.0-EU433"}}
    \cup
    {[exists |-> TRUE, decodes |-> TRUE,
      content |-> SavedState(mac, DEVICESTATE_CUR_VER, num, dir, FALSE)] :
        num \in SavedNodeNums,
        dir \in SavedDirectories(mac)}

\* a device before NodeDB::init: static storage is zero
InitBoot ==
    /\ hwMac \in HwMacs
    /\ hwVersion \in {"", "1.0-EU433"}
    /\ disk \in DiskFiles(hwMac)
    /\ tmpdisk = NoFile
    /\ ourMacAddr = ZeroMac
    /\ devicestate = ZeroDeviceState
    /\ halted = "no"
    /\ op = "off"
    /\ result = NoResult
    /\ RouterInit

BootUpdatePosition == UpdatePositionStep({Peer}, {PositionB})

BootUpdateUser == UpdateUserStep({Peer, Peer + 1}, Users)

BootUpdateFrom ==
    UpdateFromStep({mp \in FromPackets : mp.decoded /\ mp.rx_time # 0 /\ mp.rx_snr = 0})

BootResetRadioConfig == \E fr \in BOOLEAN : ResetRadioConfigOp(fr)

NextBoot ==
    \/ Boot
    \/ PickNewNodeNumOp
    \/ BootUpdatePosition
    \/ BootUpdateUser
    \/ BootUpdateFrom
    \/ BootResetRadioConfig

SpecBoot == InitBoot /\ [][NextBoot]_vars

----------------------------------------------------------------------------
(* Claims about the node directory *)

\* the node table of the device state
nodes == devicestate.node_db

\* the table holds MAX_NUM_NODES records and none of them has num == n
FullWithout(n) == Len(nodes) = MAX_NUM_NODES /\ getNodeIdx(devicestate, n) = 0

\* C7: from the default, empty directory, under getOrCreateNode, updatePosition, updateUser
\* and updateFrom, the table never holds more than MAX_NUM_NODES records and no two of them
\* share a num; a request that needs a new record while the table is full ends in the
\* failed assertion, and a failed assertion leaves the table as it was, full.
C7_DirectoryInvariant ==
    /\ [](/\ Len(nodes) <= MAX_NUM_NODES
          /\ \A i, j \in 1..Len(nodes) : nodes[i].num = nodes[j].num => i = j)
    /\ [][/\ halted' = "assert" =>
                devicestate' = devicestate /\ Len(nodes) = MAX_NUM_NODES
          /\ \A n \in DirNodeIds :
                (FullWithout(n) /\ (GetOrCreateNodeOp(n)
                                    \/ UpdatePositionStep({n}, Positions)
                                    \/ UpdateUserStep({n}, Users))) =>
                    halted' = "assert"
          /\ \A mp \in FromPackets :
                (mp.decoded /\ FullWithout(getFrom(mp)) /\ UpdateFromOp(mp)) =>
                    halted' = "assert"
        ]_vars

\* C7 witness: a request for a new node number has hit the full table
C7_Witness ==
    /\ halted = "assert"
    /\ Len(nodes) = MAX_NUM_NODES
    /\ op = "getOrCreateNode"

\* C8: after NodeDB::init and after pickNewNodeNum, whatever node number, MAC and directory
\* the device started with, my_node_num is in [NUM_RESERVED, NODENUM_BROADCAST) and no
\* record of the directory with num == my_node_num has a MAC other than owner.macaddr.
C8_NodeNumSelection ==
    (op \in {"init", "pickNewNodeNum"} /\ halted # "hang") =>
        /\ getNodeNum >= NUM_RESERVED
        /\ getNodeNum < NODENUM_BROADCAST
        /\ \A i \in 1..Len(nodes) :
              nodes[i].num = getNodeNum =>
                 nodes[i].user.macaddr = devicestate.owner.macaddr

\* C8 witness: the booted device found its saved node number in use by a peer's record and
\* took another number
C8_Witness ==
    /\ op = "init"
    /\ halted = "no"
    /\ disk.exists
    /\ disk.decodes
    /\ disk.content.version = DEVICESTATE_CUR_VER
    /\ disk.content.my_node.my_node_num = Peer
    /\ disk.content.node_db = <<SavedNode(Peer, PeerMac)>>
    /\ getNodeNum # Peer
    /\ Len(nodes) = 2

\* C9 as stated: once NodeDB::init has completed, the directory holds a record with
\* num == my_node_num whose user equals owner.
C9_SelfRecord ==
    (Booted /\ halted = "no") =>
        \E i \in 1..Len(nodes) :
            nodes[i].num = getNodeNum /\ nodes[i].user = devicestate.owner

\* C9: the state a factory reset leaves: an empty directory
C9_Witness ==
    /\ op = "resetRadioConfig"
    /\ halted = "no"
    /\ nodes = << >>

\* the position stored for node n, all zero when there is no record yet
storedPosition(n) ==
    IF getNodeIdx(devicestate, n) # 0
    THEN nodes[getNodeIdx(devicestate, n)].position
    ELSE ZeroPosition

\* C10: in every reachable state, updatePosition(n, p) sets the stored time to p.time only
\* when p.time # 0 and the stored time is 0, the battery level only when
\* p.battery_level # 0, latitude and longitude (both) only when one of p's is non-zero,
\* always sets has_position and changes no other record; the record {time 1000, lat 50,
\* lon 60, batt 80} merged with {time 0, lat 0, lon 0, batt 75} gives {time 1000, lat 50,
\* lon 60, batt 75} with has_position.
C10_PositionMerge ==
    \A n \in DirNodeIds, p \in Positions :
        ~getOrCreateAsserts(devicestate, n) =>
            LET d == updatePosition(devicestate, n, p)
                i == getNodeIdx(d, n)
                old == storedPosition(n)
                new == d.node_db[i].position
            IN /\ i # 0
               /\ new.time = (IF p.time # 0 /\ old.time = 0 THEN p.time ELSE old.time)
               /\ new.battery_level =
                     (IF p.battery_level # 0 THEN p.battery_level ELSE old.battery_level)
               /\ new.latitude_i =
                     (IF p.latitude_i # 0 \/ p.longitude_i # 0
                      THEN p.latitude_i ELSE old.latitude_i)
               /\ new.longitude_i =
                     (IF p.latitude_i # 0 \/ p.longitude_i # 0
                      THEN p.longitude_i ELSE old.longitude_i)
               /\ d.node_db[i].has_position
               /\ \A j \in 1..Len(nodes) : j # i => d.node_db[j] = nodes[j]
               /\ (old = PositionA /\ p = PositionB) =>
                     new = [latitude_i |-> 50, longitude_i |-> 60, time |-> 1000,
                            battery_level |-> 75]
               /\ (old.time # 0 /\ p.time = 0) => new.time = old.time

\* C10 witness: updatePosition has just merged a report without time and position into
\* the record {time 1000, lat 50, lon 60, batt 80}
C10_Witness ==
    /\ op = "updatePosition"
    /\ halted = "no"
    /\ \E i \in 1..Len(nodes) :
          /\ nodes[i].has_position
          /\ nodes[i].position = [latitude_i |-> 50, longitude_i |-> 60, time |-> 1000,
                                  battery_level |-> 75]

----------------------------------------------------------------------------
(* Online nodes *)

TimeMod == 2^TimeBits

\* #define NUM_ONLINE_SECS (60 * 2)
NUM_ONLINE_SECS == 60 * 2

\* (int) of a difference of two uint32_t readings of the clock of seconds
ToIntSecs(x) == IF x % TimeMod >= TimeMod \div 2 THEN (x % TimeMod) - TimeMod ELSE x % TimeMod

\* sinceLastSeen(n), getTime() returning t
sinceLastSeen(n, t) ==
    LET delta == ToIntSecs(t - n.position.time)
    IN IF delta < 0 THEN 0 ELSE delta

RECURSIVE numSeen(_, _, _)
\* the loop of getNumOnlineNodes over nodes[i..*numNodes)
numSeen(ds, i, t) ==
    IF i > Len(ds.node_db) THEN 0
    ELSE (IF sinceLastSeen(ds.node_db[i], t) < NUM_ONLINE_SECS THEN 1 ELSE 0)
         + numSeen(ds, i + 1, t)

getNumOnlineNodes(ds, t) == numSeen(ds, 1, t)

GetNumOnlineNodesOp(t) ==
    /\ Booted /\ halted = "no"
    /\ op' = "getNumOnlineNodes"
    /\ result' = [time |-> t, count |-> getNumOnlineNodes(devicestate, t)]
    /\ UNCHANGED <<devicestate, ourMacAddr, hwMac, hwVersion, disk, tmpdisk, halted>>
    /\ UNCHANGED rvars

\* readings of getTime(): before, at and after the times packets were received
ClockTimes == {0, 1000, 1100, 2000, 5000, 8000}

\* packets heard at three moments, from the phone, a peer and another peer
OnlinePackets ==
    [from : {0, Peer, Peer + 1}, rx_time : {1000, 1050, 5000}, rx_snr : {0}, decoded : {TRUE}]

OnlineUpdateFrom == UpdateFromStep(OnlinePackets)

OnlineGetNumOnlineNodes == \E t \in ClockTimes : GetNumOnlineNodesOp(t)

NextOnline == OnlineUpdateFrom \/ OnlineGetNumOnlineNodes

SpecOnline == InitDir /\ [][NextOnline]_vars

\* the seconds since node n was heard, as the claim reads it: max(0, now - position.time)
secondsSince(n, t) == IF t - n.position.time < 0 THEN 0 ELSE t - n.position.time

\* C11 as stated: getNumOnlineNodes returns the number of records last heard less than
\* 7200 seconds ago, records heard in the future of the clock included.
C11_OnlineCount ==
    op = "getNumOnlineNodes" =>
        result.count =
            Cardinality({i \in 1..Len(nodes) : secondsSince(nodes[i], result.time) < 7200})

\* C11: getNumOnlineNodes has just left out a record heard 1000 seconds ago
C11_Witness ==
    /\ op = "getNumOnlineNodes"
    /\ result.time = 2000
    /\ result.count = 0
    /\ \E i \in 1..Len(nodes) : nodes[i].position.time = 1000

----------------------------------------------------------------------------
(* Claims about loading the saved state *)

\* the device state in RAM when NodeDB::init calls loadFromDisk
PreLoadWorld == installDefaultDeviceState(World(ZeroDeviceState, ZeroMac))

\* loadFromDisk rejects the file f
Rejected(f) == f.exists /\ (~f.decodes \/ f.content.version < DEVICESTATE_MIN_VER)

\* the default state with the region values v holds, where v holds any
DefaultWithRegionOf(v) ==
    [DefaultDeviceState EXCEPT
        !.radio.preferences.region =
            IF v.radio.preferences.region # RegionCode_Unset
            THEN v.radio.preferences.region ELSE @,
        !.my_node.region = IF v.my_node.region # "" THEN v.my_node.region ELSE @]

\* C12: loadFromDisk, from the state NodeDB::init calls it in and from every state the
\* booted device reaches, leaves the pre-load state when db.proto is absent, the decoded
\* state when it decodes with version >= DEVICESTATE_MIN_VER, and otherwise the state of
\* installDefaultDeviceState: the default state, in which only the preserved region values
\* differ, with an empty directory.
C12_LoadAcceptance ==
    \A w \in {PreLoadWorld} \cup (IF Booted THEN {theWorld} ELSE {}) :
        LET l == loadFromDisk(w, disk).ds
        IN /\ ~disk.exists => l = w.ds
           /\ (disk.exists /\ ~Rejected(disk)) =>
                 l = disk.content /\ l.version >= DEVICESTATE_MIN_VER
           /\ Rejected(disk) =>
                 /\ l.node_db = << >>
                 /\ l = DefaultWithRegionOf(disk.content)

\* C12 witness: the device has booted from a file of an older version that held a record
\* of a peer, and its directory holds its own record only
C12_Witness ==
    /\ op = "init"
    /\ halted = "no"
    /\ disk.exists
    /\ disk.decodes
    /\ disk.content.version < DEVICESTATE_MIN_VER
    /\ Len(disk.content.node_db) = 1
    /\ Len(nodes) = 1
    /\ nodes[1].num = getNodeNum

\* recordCriticalError(code, address)
recordCriticalError(w, code, address) ==
    [w EXCEPT !.ds.my_node.error_code = code,
              !.ds.my_node.error_address = address,
              !.ds.my_node.error_count = @ + 1]

\* db.proto exists and pb_decode fails on it
DecodeFails(f) == f.exists /\ ~f.decodes

\* C13: when loadFromDisk fails to decode db.proto, the default state is reinstalled and
\* the failure is recorded through recordCriticalError: after the load error_count has
\* been incremented and error_code is not None, and after the boot error_count still
\* shows the failure.
C13_FailureRecorded ==
    /\ DecodeFails(disk) =>
          LET l == loadFromDisk(PreLoadWorld, disk).ds
          IN /\ l.node_db = << >>
             /\ l.my_node.error_count = PreLoadWorld.ds.my_node.error_count + 1
             /\ l.my_node.error_code # CriticalErrorCode_None
    /\ (Booted /\ DecodeFails(disk)) => devicestate.my_node.error_count > 0

\* C13 witness: the device has booted from a db.proto that did not decode, and runs on the
\* default state with no error recorded
C13_Witness ==
    /\ op = "init"
    /\ halted = "no"
    /\ DecodeFails(disk)
    /\ Len(nodes) = 1
    /\ devicestate.my_node.error_count = 0
    /\ devicestate.my_node.error_code = CriticalErrorCode_None

----------------------------------------------------------------------------
(* Saving *)

\* what of a NodeInfo pb_encode writes: a submessage only when its has_ flag is set
EncodedNodeInfo(n) ==
    [n EXCEPT !.user = IF n.has_user THEN @ ELSE ZeroUser,
              !.position = IF n.has_position THEN @ ELSE ZeroPosition]

\* a variant of pb_encode that leaves the directory out
pb_encodeNoDirectory(ds) ==
    [ds EXCEPT
        !.my_node = IF ds.has_my_node THEN @ ELSE ZeroDeviceState.my_node,
        !.owner = IF ds.has_owner THEN @ ELSE ZeroUser,
        !.radio = IF ~ds.has_radio THEN ZeroDeviceState.radio
                  ELSE IF ds.radio.has_preferences THEN @
                  ELSE [@ EXCEPT !.preferences = ZeroDeviceState.radio.preferences],
        !.node_db = << >>]

\* pb_encode(&stream, DeviceState_fields, &devicestate), as the state pb_decode builds from
\* the bytes in a zeroed devicestate: scalars and strings as they are, a submessage only
\* when its has_ flag is set, the first node_db_count records of the directory
pb_encode(ds) ==
    [ds EXCEPT
        !.my_node = IF ds.has_my_node THEN @ ELSE ZeroDeviceState.my_node,
        !.owner = IF ds.has_owner THEN @ ELSE ZeroUser,
        !.radio = IF ~ds.has_radio THEN ZeroDeviceState.radio
                  ELSE IF ds.radio.has_preferences THEN @
                  ELSE [@ EXCEPT !.preferences = ZeroDeviceState.radio.preferences],
        !.node_db = [i \in 1..Len(ds.node_db) |-> EncodedNodeInfo(ds.node_db[i])]]

\* what the filesystem answers during one saveToDisk: FS.open of the staging file,
\* pb_encode through the write callback, FS.remove and FS.rename
IoOutcomes == [open : BOOLEAN, encode : BOOLEAN, remove : BOOLEAN, rename : BOOLEAN]

\* NodeDB::saveToDisk on the files pref (/db.proto) and tmp (/db.proto.tmp) under the
\* filesystem answers io; FS.remove fails when there is no file to remove
saveToDisk(ds, pref, tmp, io) ==
    IF ds.no_save THEN [ds |-> ds, pref |-> pref, tmp |-> tmp]
    ELSE IF ~io.open THEN [ds |-> ds, pref |-> pref, tmp |-> tmp]
    ELSE LET d == [ds EXCEPT !.version = DEVICESTATE_CUR_VER]
             removed == io.remove /\ pref.exists
         IN IF ~io.encode
            THEN [ds |-> d, pref |-> pref,
                  tmp |-> [exists |-> TRUE, decodes |-> FALSE,
                           content |-> [ZeroDeviceState EXCEPT !.version = d.version]]]
            ELSE LET written == [exists |-> TRUE, decodes |-> TRUE, content |-> pb_encode(d)]
                     left == IF removed THEN NoFile ELSE pref
                 IN IF io.rename
                    THEN [ds |-> d, pref |-> written, tmp |-> NoFile]
                    ELSE [ds |-> d, pref |-> left, tmp |-> written]

SaveToDiskOp(io) ==
    /\ Booted /\ halted = "no"
    /\ op' = "saveToDisk"
    /\ LET s == saveToDisk(devicestate, disk, tmpdisk, io)
       IN /\ devicestate' = s.ds
          /\ disk' = s.pref
          /\ tmpdisk' = s.tmp
    /\ UNCHANGED <<hwMac, hwVersion, ourMacAddr, halted, result>>
    /\ UNCHANGED rvars

\* the power is cut and restored: RAM is zero again, the files stay
PowerCycle ==
    /\ Booted
    /\ op' = "off"
    /\ devicestate' = ZeroDeviceState
    /\ ourMacAddr' = ZeroMac
    /\ halted' = "no"
    /\ UNCHANGED <<hwMac, hwVersion, disk, tmpdisk, result>>
    /\ UNCHANGED rvars

\* /db.proto of a device that saved before: written by this version (also with no_save
\* set by a developer) or by an older one
SavedFiles(mac) ==
    {[exists |-> TRUE, decodes |-> TRUE,
      content |-> [SavedState(mac, ver, NUM_RESERVED + 2, <<SavedNode(Peer, PeerMac)>>, FALSE)
                      EXCEPT !.no_save = ns]] :
        ver \in {DEVICESTATE_MIN_VER - 1, DEVICESTATE_CUR_VER},
        ns \in BOOLEAN}

InitSave ==
    /\ hwMac = <<0, NUM_RESERVED + 2>>
    /\ hwVersion = ""
    /\ disk \in SavedFiles(hwMac)
    /\ tmpdisk = NoFile
    /\ ourMacAddr = ZeroMac
    /\ devicestate = ZeroDeviceState
    /\ halted = "no"
    /\ op = "off"
    /\ result = NoResult
    /\ RouterInit

SaveUpdatePosition == UpdatePositionStep({Peer}, {PositionB})

SaveUpdateUser == UpdateUserStep({Peer + 1}, {UserOf(PeerMac, Peer + 1)})

SaveSaveToDisk == \E io \in IoOutcomes : SaveToDiskOp(io)

NextSave ==
    \/ Boot
    \/ SaveUpdatePosition
    \/ SaveUpdateUser
    \/ SaveSaveToDisk
    \/ PowerCycle

SpecSave == InitSave /\ [][NextSave]_vars

\* C14: when a step of saveToDisk fails (the staging file cannot be opened, pb_encode
\* fails, or the rename fails), /db.proto is afterwards what it was before; and with
\* no_save set, saveToDisk changes neither /db.proto nor /db.proto.tmp.
C14_FailedSaveKeepsFile ==
    (Booted /\ halted = "no") =>
        \A io \in IoOutcomes :
            LET s == saveToDisk(devicestate, disk, tmpdisk, io)
            IN /\ (~devicestate.no_save /\ (~io.open \/ ~io.encode \/ ~io.rename)) =>
                      s.pref = disk
               /\ devicestate.no_save => (s.pref = disk /\ s.tmp = tmpdisk)

\* C14 witness: after saveToDisk /db.proto is gone while the staging file holds the
\* complete new state (every device of SpecSave starts with a /db.proto)
C14_Witness ==
    /\ op = "saveToDisk"
    /\ ~disk.exists
    /\ tmpdisk.exists
    /\ tmpdisk.decodes
    /\ tmpdisk.content = devicestate

\* a filesystem on which every step of saveToDisk succeeds
IoOk == [open |-> TRUE, encode |-> TRUE, remove |-> TRUE, rename |-> TRUE]

\* the device state after saveToDisk and then loadFromDisk, without filesystem failure
SavedAndLoaded ==
    LET s == saveToDisk(devicestate, disk, tmpdisk, IoOk)
    IN loadFromDisk(World(s.ds, ourMacAddr), s.pref).ds

\* C15 as stated: for every device state D the running device reaches, saveToDisk and
\* then loadFromDisk (no filesystem failure) leave the state equal to D in every field,
\* with version = DEVICESTATE_CUR_VER.
C15_RoundTripAnyState ==
    (Booted /\ halted = "no") =>
        SavedAndLoaded = [devicestate EXCEPT !.version = DEVICESTATE_CUR_VER]

\* C15 amended: the round trip holds for every device state D in which no_save is not
\* set; with no_save set saveToDisk writes nothing and loadFromDisk brings back what
\* /db.proto held before.
C15_RoundTrip ==
    (Booted /\ halted = "no" /\ ~devicestate.no_save) =>
        /\ SavedAndLoaded = [devicestate EXCEPT !.version = DEVICESTATE_CUR_VER]
        /\ SavedAndLoaded.version = DEVICESTATE_CUR_VER

\* C15 witness: saveToDisk has just written a state that holds a peer's record with a
\* position next to the device's own record
C15_Witness ==
    /\ op = "saveToDisk"
    /\ ~devicestate.no_save
    /\ disk.exists
    /\ disk.decodes
    /\ disk.content = devicestate
    /\ tmpdisk = NoFile
    /\ Len(nodes) = 2
    /\ \E i \in 1..Len(nodes) : nodes[i].num = Peer /\ nodes[i].has_position

----------------------------------------------------------------------------
(* Region across a version rejection *)

\* db.proto decodes to the version just below the oldest one accepted
OldVersion(f) == f.exists /\ f.decodes /\ f.content.version = DEVICESTATE_MIN_VER - 1

\* the states loadFromDisk is applied to: the one NodeDB::init calls it in, and the ones
\* the running device holds
RamBeforeLoad == {PreLoadWorld} \cup (IF Booted /\ halted = "no" THEN {theWorld} ELSE {})

\* C16 as stated: on a db.proto of version DEVICESTATE_MIN_VER - 1 the resulting state is
\* the default state, except that the region code and the legacy region string keep the
\* value held in RAM before the load if and only if that value was set; the region values
\* of the rejected file do not enter the state.
C16_RegionFromRam ==
    OldVersion(disk) =>
        \A w \in RamBeforeLoad : loadFromDisk(w, disk).ds = DefaultWithRegionOf(w.ds)

\* C16 amended: on a db.proto of version DEVICESTATE_MIN_VER - 1 the resulting state is
\* the default state, except that the region code and the legacy region string keep the
\* value decoded from the rejected file if and only if that value is set; the region
\* values held in RAM before the load do not enter the state.  After the boot the region
\* code is the file's when set, and the legacy string the file's unless the build
\* names a HW_VERSION.
C16_RegionFromFile ==
    /\ OldVersion(disk) =>
          \A w \in RamBeforeLoad : loadFromDisk(w, disk).ds = DefaultWithRegionOf(disk.content)
    /\ (OldVersion(disk) /\ op = "init" /\ halted = "no") =>
          /\ disk.content.radio.preferences.region # RegionCode_Unset =>
                devicestate.radio.preferences.region = disk.content.radio.preferences.region
          /\ devicestate.my_node.region =
                IF hwVersion # "" THEN hwVersion ELSE disk.content.my_node.region
          /\ Len(nodes) = 1

\* C16 witness: the device has booted from an older file that held a region code and a
\* legacy region string, holds both, and has forgotten the file's directory
C16_Witness ==
    /\ op = "init"
    /\ halted = "no"
    /\ hwVersion = ""
    /\ OldVersion(disk)
    /\ disk.content.radio.preferences.region = "US"
    /\ disk.content.my_node.region = "1.0-EU433"
    /\ PreLoadWorld.ds.radio.preferences.region = RegionCode_Unset
    /\ devicestate.radio.preferences.region = "US"
    /\ devicestate.my_node.region = "1.0-EU433"
    /\ Len(nodes) = 1

----------------------------------------------------------------------------
(* Claims about the keys of the pending table *)

\* the key stopRetransmission is called with for the packet p a record owns:
\* stopRetransmission(getFrom(p), p->id) in startRetransmission and shouldFilterReceived,
\* stopRetransmission(p->to, ackId) in sniffReceived for the ack of a packet of ours
LookupKey(p) == GlobalPacketId2(getFrom(p), p.id)

\* C17: every entry of the pending table is stored under (packet.from, packet.id) of the
\* packet it owns, also for packets of the phone (from = 0), and the key an entry was
\* inserted under is the key stopRetransmission is later called with for it.
C17_PendingKey ==
    \A key \in DOMAIN pending :
        /\ key = <<pending[key].packet.from, pending[key].packet.id>>
        /\ key = LookupKey(pending[key].packet)

\* C17 witness: the pending table holds a record for a packet of the phone
C17_Witness ==
    \E key \in DOMAIN pending :
        /\ pending[key].packet.from = 0
        /\ pending[key].packet.want_ack
        /\ key = <<0, pending[key].packet.id>>

\* startRetransmission(p) for a fresh copy of p, then stopRetransmission(p.from, p.id)
StartThenStop(p, stale1, stale2) ==
    stopRetransmission(startRetransmission(RouterState, p, allocated + 1, 1, stale1),
                       GlobalPacketId2(p.from, p.id), stale2)

\* stopRetransmission called release once for the copy c: on the copy itself, or (stale)
\* on what it read in the erased record
ReleaseCalled(t, c, stale) == IF stale THEN t.wildRelease ELSE t.released[c] = 1

----------------------------------------------------------------------------
(* Claims about deadlines and the next wakeup *)

\* the records whose deadline has passed when the difference now - next_tx_msec is read
\* as a signed quantity of the width of the clock
WrapSafeDueKeys == {key \in DOMAIN pending : ToInt32(now - pending[key].nextTxMsec) >= 0}

\* doRetransmissions, run now, acts on the record under key: retransmits or removes it
ActedOn(t, key) ==
    \/ key \notin DOMAIN t.pending
    \/ t.pending[key].sent # pending[key].sent

\* C19: for all values of the clock and of next_tx_msec, doRetransmissions treats a record
\* as due exactly when now - next_tx_msec, read as a signed quantity, is >= 0: a deadline
\* that wrapped is not due before its interval has passed, and a deadline just before the
\* wrap is due after the clock has wrapped.
C19_WrapSafeDeadlines ==
    /\ DueKeys = WrapSafeDueKeys
    /\ \A order \in Orders(DOMAIN pending), stale \in SUBSET (DOMAIN pending) :
          LET t == doRetransmissions(RouterState, order,
                                     [k \in DOMAIN pending |-> 1], stale)
          IN \A key \in DOMAIN pending : ActedOn(t, key) <=> key \in WrapSafeDueKeys

\* C19 witness: doRetransmissions has just retransmitted a record and set a deadline that
\* wrapped past the end of the clock; the record counts as due again at once although
\* its interval has not passed
C19_Witness ==
    /\ rop[1] = "doRetransmissions"
    /\ now = MillisMod - 1
    /\ \E key \in DOMAIN pending :
          /\ pending[key].sent = 2
          /\ pending[key].nextTxMsec = 0
          /\ key \in DueKeys
          /\ key \notin WrapSafeDueKeys

\* next_tx_msec - now of the record under key, as the int32_t doRetransmissions computes
DelayOf(key) == ToInt32(pending[key].nextTxMsec - now)

\* C20: doRetransmissions returns INT32_MAX when no record remains after the walk, and
\* otherwise the minimum over the records that remain of next_tx_msec - now; the delay
\* returned is never negative and never later than the earliest remaining deadline.
C20_NextWakeup ==
    rop[1] = "doRetransmissions" =>
        /\ ret.type = "int32_t"
        /\ DOMAIN pending = {} => ret.msec = INT32_MAX
        /\ DOMAIN pending # {} =>
              /\ \E key \in DOMAIN pending : ret.msec = DelayOf(key)
              /\ \A key \in DOMAIN pending : ret.msec <= DelayOf(key)
        /\ ret.msec >= 0

\* C20 witness: doRetransmissions has walked a table in which a record remains, and has
\* returned a negative delay
C20_Witness ==
    /\ rop[1] = "doRetransmissions"
    /\ DOMAIN pending # {}
    /\ ret.type = "int32_t"
    /\ ret.msec < 0
    /\ \E key \in DOMAIN pending : ret.msec = DelayOf(key)

----------------------------------------------------------------------------
(* Claims about the hop limit and the exhaustion nak *)

\* the packets the last handler handed to FloodingRouter::send
Flooded == {out[i] : i \in {j \in 1..Len(out) : out[j].kind = "flood"}}

\* C21: every want_ack broadcast the reliable layer hands to the flooding send, on the
\* first send and on every retransmission of the stored copy, has hop_limit >= 1; send
\* leaves the hop limit of a unicast packet and of a packet without want_ack as it is,
\* and a send without want_ack leaves the pending table unchanged.
C21_BroadcastHopLimit ==
    /\ \A f \in Flooded : (f.want_ack /\ f.to = NODENUM_BROADCAST) => f.hop_limit >= 1
    /\ \A key \in DOMAIN pending :
          pending[key].packet.to = NODENUM_BROADCAST => pending[key].packet.hop_limit >= 1
    /\ \A p \in SendPackets, stale \in BOOLEAN :
          (p.want_ack => allocated < MaxSends) =>
             LET t == send(RouterState, p, allocated + 1, 1, stale, ERRNO_OK)
             IN /\ Len(t.out) = 1
                /\ (p.want_ack /\ p.to = NODENUM_BROADCAST) => t.out[1].hop_limit >= 1
                /\ (~p.want_ack \/ p.to # NODENUM_BROADCAST) => t.out[1] = FloodPacket(p)
                /\ ~p.want_ack => t.pending = pending

\* C21 witness: doRetransmissions has just retransmitted the stored copy of a want_ack
\* broadcast that was handed to send with hop_limit 0
C21_Witness ==
    /\ rop[1] = "doRetransmissions"
    /\ \E f \in Flooded :
          /\ f.want_ack
          /\ f.to = NODENUM_BROADCAST
          /\ f.hop_limit = 1
          /\ \E p \in WantAckPackets : p.hop_limit = 0 /\ p.id = f.id /\ p.from = f.from

\* the number of MAX_RETRANSMIT naks among the packets in o
NaksIn(o) ==
    Cardinality({i \in 1..Len(o) :
                    o[i].kind = "acknak" /\ o[i].err = Routing_Error_MAX_RETRANSMIT})

\* doRetransmissions run now, in any order of the map
RetransmissionRuns ==
    {doRetransmissions(RouterState, order, [k \in DOMAIN pending |-> 1], stale) :
        order \in Orders(DOMAIN pending), stale \in SUBSET (DOMAIN pending)}

\* the number of invocations of doRetransmissions that found the record e due so far:
\* send hands the packet to the flooding send once, every due invocation once more
DueInvocations(e) == e.sent - 1

\* the due records that n invocations of doRetransmissions found due before
DueFor(n) == {key \in DueKeys : DueInvocations(pending[key]) = n}

\* C22 as stated: the first three invocations of doRetransmissions that find a record
\* due emit no MAX_RETRANSMIT nak for it, and the record is still pending after the third.
C22_NakOnFourthTick ==
    \A t \in RetransmissionRuns :
        /\ DueFor(0) \cup DueFor(1) \cup DueFor(2) \subseteq DOMAIN t.pending
        /\ DueFor(3) = {} => NaksIn(t.out) = 0

\* C22 amended: the first two invocations of doRetransmissions that find a record due
\* retransmit it and emit no nak for it, and the record is still pending after the
\* second; the third emits the MAX_RETRANSMIT nak and removes the record.  No record
\* lives to a fourth.
C22_NakOnThirdTick ==
    /\ \A key \in DOMAIN pending : DueInvocations(pending[key]) \in 0..2
    /\ \A t \in RetransmissionRuns :
          /\ \A key \in DueFor(0) \cup DueFor(1) :
                /\ key \in DOMAIN t.pending
                /\ DueInvocations(t.pending[key]) = DueInvocations(pending[key]) + 1
                /\ \E i \in 1..Len(t.out) : t.out[i] = FloodPacket(pending[key].packet)
          /\ \A key \in DueFor(2) :
                /\ key \notin DOMAIN t.pending
                /\ \E i \in 1..Len(t.out) :
                      t.out[i] = AckNakPacket(Routing_Error_MAX_RETRANSMIT,
                                              getFrom(pending[key].packet),
                                              pending[key].packet.id)
          /\ NaksIn(t.out) = Cardinality(DueFor(2))

\* C22 witness: the only packet sent was retransmitted twice, and doRetransmissions has
\* just emitted its nak and emptied the table
C22_Witness ==
    /\ rop[1] = "doRetransmissions"
    /\ allocated = 1
    /\ rop[2] = {1}
    /\ DOMAIN pending = {}
    /\ Len(out) = 1
    /\ out[1].kind = "acknak"
    /\ out[1].err = Routing_Error_MAX_RETRANSMIT

----------------------------------------------------------------------------
(* Claims about completion notifications *)

\* the acks and naks among the packets in o
AckNaksIn(o) == {i \in 1..Len(o) : o[i].kind = "acknak"}

\* the records of the pending table that are gone in the router state t
RemovedBy(t) == DOMAIN pending \ DOMAIN t.pending

\* C23: the reliable layer emits at most one completion notification per pending record,
\* an implicit ack or a MAX_RETRANSMIT nak, over any interleaving of overheard
\* rebroadcasts, received acks and naks, and doRetransmissions: a handler emits a
\* completion only for a record it removes, one per record removed (shouldFilterReceived
\* an implicit ack, doRetransmissions a nak); sniffReceived, also on an ack or nak of our
\* own that comes back through the local send path, emits none; and a record removed
\* never returns to the table.
C23_OneCompletion ==
    /\ [](/\ Copies(pending) \subseteq 1..allocated
          /\ \A p \in FilterPackets, filt \in BOOLEAN, stale \in BOOLEAN :
                LET t == shouldFilterReceived(RouterState, p, filt, stale)
                IN /\ Cardinality(RemovedBy(t)) <= 1
                   /\ Len(t.out) = Cardinality(RemovedBy(t))
                   /\ \A i \in AckNaksIn(t.out) :
                         /\ t.out[i].err = Routing_Error_NONE
                         /\ RemovedBy(t) = {GlobalPacketId2(t.out[i].to, t.out[i].request_id)}
          /\ \A t \in RetransmissionRuns :
                /\ Cardinality(AckNaksIn(t.out)) = Cardinality(RemovedBy(t))
                /\ \A i \in AckNaksIn(t.out) :
                      /\ t.out[i].err = Routing_Error_MAX_RETRANSMIT
                      /\ \E key \in RemovedBy(t) :
                            /\ t.out[i].to = getFrom(pending[key].packet)
                            /\ t.out[i].request_id = pending[key].packet.id
          /\ \A p \in SniffPackets, c \in Routings,
                currentReply \in BOOLEAN, stale \in BOOLEAN :
                LET t == sniffReceived(RouterState, p, c, currentReply, stale)
                IN /\ ~p.want_ack => t.out = << >>
                   /\ \A i \in AckNaksIn(t.out) :
                         t.out[i] = AckNakPacket(Routing_Error_NONE, getFrom(p), p.id))
    /\ [][Copies(pending') \subseteq Copies(pending) \cup {allocated + 1}]_vars

\* C23 witness: shouldFilterReceived has just removed the record of one of two pending
\* packets and emitted its implicit ack, and the other record is still pending
C23_Witness ==
    /\ rop[1] = "shouldFilterReceived"
    /\ Cardinality(rop[2]) = 1
    /\ allocated = MaxSends
    /\ Cardinality(DOMAIN pending) = 1
    /\ Len(out) = 1
    /\ out[1].kind = "acknak"
    /\ out[1].err = Routing_Error_NONE

----------------------------------------------------------------------------
(* Power loss during a save *)

\* the staging file while it is open for writing: created or cut to length 0 by FS.open,
\* then holding a part of the serialized state
PartialFile == [exists |-> TRUE, decodes |-> FALSE,
                content |-> [ZeroDeviceState EXCEPT !.version = DEVICESTATE_CUR_VER]]

\* the file pb_encode completes for the device state ds
CompleteFile(ds) ==
    [exists |-> TRUE, decodes |-> TRUE,
     content |-> pb_encode([ds EXCEPT !.version = DEVICESTATE_CUR_VER])]

\* a variant of saveTrace that serializes into /db.proto itself, without a staging file
saveTraceInPlace(ds, pref, tmp, io) ==
    IF ds.no_save \/ ~io.open THEN <<[pref |-> pref, tmp |-> tmp]>>
    ELSE <<[pref |-> pref, tmp |-> tmp],
           [pref |-> PartialFile, tmp |-> tmp],
           [pref |-> IF io.encode THEN CompleteFile(ds) ELSE PartialFile, tmp |-> tmp]>>

\* the files after each filesystem step of saveToDisk, before the first step included:
\* FS.open of the staging file, pb_encode and close, FS.remove, FS.rename
saveTrace(ds, pref, tmp, io) ==
    IF ds.no_save \/ ~io.open THEN <<[pref |-> pref, tmp |-> tmp]>>
    ELSE LET start == <<[pref |-> pref, tmp |-> tmp],
                        [pref |-> pref, tmp |-> PartialFile]>>
         IN IF ~io.encode THEN start
            ELSE LET left == IF io.remove /\ pref.exists THEN NoFile ELSE pref
                 IN start \o
                    <<[pref |-> pref, tmp |-> CompleteFile(ds)],
                      [pref |-> left, tmp |-> CompleteFile(ds)],
                      IF io.rename
                      THEN [pref |-> CompleteFile(ds), tmp |-> NoFile]
                      ELSE [pref |-> left, tmp |-> CompleteFile(ds)]>>

\* saveToDisk runs and the power is lost after n of its filesystem steps: the files stay
\* as they are at that point, RAM is zero when the power returns
SaveToDiskCrash(io, n) ==
    /\ Booted /\ halted = "no"
    /\ LET tr == saveTrace(devicestate, disk, tmpdisk, io)
       IN /\ n < Len(tr)
          /\ disk' = tr[n + 1].pref
          /\ tmpdisk' = tr[n + 1].tmp
    /\ op' = "off"
    /\ devicestate' = ZeroDeviceState
    /\ ourMacAddr' = ZeroMac
    /\ UNCHANGED <<hwMac, hwVersion, halted, result>>
    /\ UNCHANGED rvars

SaveCrash == \E io \in IoOutcomes, n \in 1..4 : SaveToDiskCrash(io, n)

NextCrash == NextSave \/ SaveCrash

SpecCrash == InitSave /\ [][NextCrash]_vars

\* C24: at every point of saveToDisk, a power loss between two filesystem steps included,
\* /db.proto is absent, or holds the complete state saved before, or the complete state
\* now serialized, never a part of one; and at every such point /db.proto or
\* /db.proto.tmp holds a complete serialized state, if /db.proto held one when the save
\* began.  The trace ends in the files saveToDisk returns with.
C24_NoTornFile ==
    /\ disk.exists => disk.decodes
    /\ (Booted /\ halted = "no") =>
          \A io \in IoOutcomes :
              LET tr == saveTrace(devicestate, disk, tmpdisk, io)
                  s == saveToDisk(devicestate, disk, tmpdisk, io)
              IN /\ tr[Len(tr)] = [pref |-> s.pref, tmp |-> s.tmp]
                 /\ \A n \in 1..Len(tr) :
                       /\ tr[n].pref \in {NoFile, disk, CompleteFile(devicestate)}
                       /\ (disk.exists /\ disk.decodes) =>
                             \/ tr[n].pref.exists /\ tr[n].pref.decodes
                             \/ tr[n].tmp.exists /\ tr[n].tmp.decodes

\* C24 witness: the power was lost between FS.remove and FS.rename: /db.proto is absent
\* and the staging file holds a complete state
C24_Witness ==
    /\ op = "off"
    /\ ~disk.exists
    /\ tmpdisk.exists
    /\ tmpdisk.decodes
    /\ Len(tmpdisk.content.node_db) = 2

====
